---- MODULE Spec2Model ----
(***************************************************************************)
(* WeatherBot: the three entry points of the pipeline                      *)
(*   weather_notify.main            fetch -> aggregate -> render -> notify *)
(*   scripts/compare_and_analyze.main   enrich docs/<city>_forecast.json   *)
(*   scripts/send_to_pushover.main      push the enriched document         *)
(* and the pure functions they call.                                       *)
(*                                                                         *)
(* Times are hours counted from tomorrow 00:00 (local), so a point is of   *)
(* tomorrow iff 0 <= t < 24 and its hour of day is t % 24.  Temperatures   *)
(* and rain percentages are exact rationals [n, d] (d > 0, lowest terms):  *)
(* the floating-point rounding of the Python arithmetic is not modelled.   *)
(***************************************************************************)
EXTENDS Integers, Sequences, FiniteSets, TLC

VARIABLES
    script,      \* which entry point (or function harness) is running
    ci,          \* index into the entry point's CITIES of the city in hand
    pc,          \* position inside the loop body, "done" or "crashed"
    owm_resp,    \* the OpenWeather response the fetcher received
    wa_resp,     \* the WeatherAPI response the fetcher received
    owm_data,    \* main's owm_data
    wa_data,     \* main's wa_data
    message,     \* main's message / create_summary's result
    forecast,    \* the document an entry point of scripts/ has loaded
    args,        \* the arguments of a function called on its own
    result,      \* what the last call of the chart renderer came to
    files,       \* chart files on disk: file name -> what the file holds
    docs,        \* docs/<city>_forecast.json: city -> document, or NoDoc
    posts,       \* requests the push endpoint has received, in order
    log,         \* lines printed, in order
    stages       \* the calls made so far, in order: <<city, call, outcome>>

vars == <<script, ci, pc, owm_resp, wa_resp, owm_data, wa_data, message,
          forecast, args, result, files, docs, posts, log, stages>>

(***************************************************************************)
(* Bounds of the model                                                     *)
(***************************************************************************)
\* resolution of the ranges handed to create_summary: steps of 1/RangeSteps
RangeSteps == 2
\* longest LLM comment, in words
MaxWords == 3

(***************************************************************************)
(* Exact rationals                                                         *)
(***************************************************************************)
Abs(x) == IF x < 0 THEN -x ELSE x

RECURSIVE Gcd(_, _)
Gcd(a, b) == IF b = 0 THEN a ELSE Gcd(b, a % b)

Rat(n, d) ==
    LET s == IF d < 0 THEN -1 ELSE 1
        g == Gcd(Abs(n), Abs(d))
    IN  [n |-> (s * n) \div g, d |-> (s * d) \div g]

Int2Rat(i) == [n |-> i, d |-> 1]
RAdd(x, y) == Rat(x.n * y.d + y.n * x.d, x.d * y.d)
RSub(x, y) == Rat(x.n * y.d - y.n * x.d, x.d * y.d)
RMul(x, y) == Rat(x.n * y.n, x.d * y.d)
RDiv(x, y) == Rat(x.n * y.d, x.d * y.n)
RLess(x, y) == x.n * y.d < y.n * x.d
RAbs(x) == [n |-> Abs(x.n), d |-> x.d]
RMax(x, y) == IF RLess(x, y) THEN y ELSE x
RMin(x, y) == IF RLess(y, x) THEN y ELSE x

RECURSIVE RSum(_)
RSum(s) == IF s = <<>> THEN Int2Rat(0) ELSE RAdd(Head(s), RSum(Tail(s)))

RECURSIVE RMaxSeq(_)
RMaxSeq(s) == IF Len(s) = 1 THEN s[1] ELSE RMax(s[1], RMaxSeq(Tail(s)))

RECURSIVE RMinSeq(_)
RMinSeq(s) == IF Len(s) = 1 THEN s[1] ELSE RMin(s[1], RMinSeq(Tail(s)))

\* sum(xs) / len(xs)
Mean(xs) == RDiv(RSum(xs), Int2Rat(Len(xs)))

\* f"{x:.<k>f}": x rounded to a multiple of 1/scale, ties to even, as a
\* count of 1/scale units (scale = 1 for .0f, 10 for .1f)
Format(x, scale) ==
    LET num == x.n * scale
        q   == num \div x.d
        r   == num % x.d
    IN  IF 2 * r < x.d THEN q
        ELSE IF 2 * r > x.d THEN q + 1
        ELSE IF q % 2 = 0 THEN q ELSE q + 1

(***************************************************************************)
(* Configuration                                                           *)
(***************************************************************************)
\* weather_notify.CITIES, compare_and_analyze.CITIES, send_to_pushover.CITIES
NOTIFY_CITIES == <<"Brussels", "Paris">>
ANALYZE_CITIES == <<"Brussels", "Paris">>
PUSH_CITIES == <<"Paris", "Brussels">>
Cities == {"Brussels", "Paris"}

\* str.lower() on the city names
Lower(city) ==
    CASE city = "Brussels" -> "brussels"
      [] city = "Paris" -> "paris"
      [] OTHER -> city

NoFile == "None"

(***************************************************************************)
(* Fetchers                                                                *)
(***************************************************************************)
target_hours == <<9, 12, 15, 18, 21, 0>>

Sample(t, temp, rain) == [t |-> t, temp |-> temp, rain |-> rain]
Hour(p) == p.t % 24
IsTomorrow(p) == p.t >= 0 /\ p.t < 24
Hours(data) == {Hour(data[i]) : i \in 1..Len(data)}
Temps(data) == [i \in 1..Len(data) |-> data[i].temp]
Rains(data) == [i \in 1..Len(data) |-> data[i].rain]

\* Python's tuple order on (dt, temp, rain)
TupleLess(p, q) ==
    \/ p.t < q.t
    \/ p.t = q.t /\ RLess(p.temp, q.temp)
    \/ p.t = q.t /\ p.temp = q.temp /\ RLess(p.rain, q.rain)

\* max(S, default=dflt) and min(S, default=dflt) over points
MaxPoint(S, dflt) ==
    IF S = {} THEN dflt ELSE CHOOSE p \in S : \A q \in S : ~TupleLess(p, q)
MinPoint(S, dflt) ==
    IF S = {} THEN dflt ELSE CHOOSE p \in S : \A q \in S : ~TupleLess(q, p)

\* a step function in place of the interpolation: the earlier point's value
InterpolateStep(before, after, h) ==
    Sample(h, before.temp, before.rain)

\* the value at target time h between the points before and after it
Interpolate(before, after, h) ==
    IF before = after
    THEN Sample(h, before.temp, before.rain)
    ELSE LET ratio == Rat(h - before.t, after.t - before.t)
         IN  Sample(h,
                    RAdd(before.temp, RMul(RSub(after.temp, before.temp), ratio)),
                    RAdd(before.rain, RMul(RSub(after.rain, before.rain), ratio)))

\* the body of "for h in target_hours" for one h
OwmAt(points, h) ==
    LET direct == {i \in 1..Len(points) : Hour(points[i]) = h}
        range  == {points[i] : i \in 1..Len(points)}
    IN  IF direct # {}
        THEN LET i == CHOOSE j \in direct : \A k \in direct : j <= k
             IN  Sample(h, points[i].temp, points[i].rain)
        ELSE Interpolate(MaxPoint({p \in range : p.t <= h}, points[1]),
                         MinPoint({p \in range : p.t >= h}, points[Len(points)]),
                         h)

\* resp.items is data["list"] with pop already * 100
get_openweather_forecast(resp) ==
    IF resp.kind = "nolist" THEN <<>>
    ELSE LET points == SelectSeq(resp.items, IsTomorrow)
         IN  IF points = <<>> THEN <<>>
             ELSE [k \in 1..Len(target_hours) |-> OwmAt(points, target_hours[k])]

WaKept(p) == IsTomorrow(p) /\ (Hour(p) >= 9 \/ Hour(p) = 0)
WaTarget(p) == \E k \in 1..Len(target_hours) : target_hours[k] = Hour(p)

\* resp.items is data["forecast"]["forecastday"][1]["hour"]
get_weatherapi_forecast(resp) ==
    IF resp.kind = "noforecast" THEN <<>>
    ELSE SelectSeq(SelectSeq(resp.items, WaKept), WaTarget)

(***************************************************************************)
(* Chart renderer                                                          *)
(***************************************************************************)
start_hour == 9
end_hour == 24

ComparisonFile(city) == Lower(city) \o "_comparison.png"

\* the hours of np.arange(start_hour, end_hour + 1) that wa_hourly.get(h, np.nan)
\* answers with np.nan; np.nan is truthy, so "v[0] if v else np.nan"
\* subscripts the float and raises TypeError
NanHours(wa) == {h \in start_hour..end_hour : h \notin Hours(wa)}

\* [raised, file]: file is the name plt.savefig wrote and the function
\* returned, NoFile when an exception left the function before line 186
plot_comparison(city, owm, wa) ==
    IF owm = <<>> \/ NanHours(wa) # {}
    THEN [raised |-> TRUE, file |-> NoFile]
    ELSE [raised |-> FALSE, file |-> ComparisonFile(city)]

(***************************************************************************)
(* Summary                                                                 *)
(***************************************************************************)
weather_to_emoji(condition) ==
    CASE condition = "rain" -> "(rain cloud)"
      [] condition = "snow" -> "(snowflake)"
      [] condition = "cloud" -> "(cloud)"
      [] condition = "clear" -> "(sun)"
      [] OTHER -> "(sun behind cloud)"

RainyAbove == 30
CloudyAbove == 5
TempRangeLimit == 3
RainRangeLimit == 20

UncertainText == "(warning) Forecast uncertain"

\* create_summary with >= for > in its test
UncertaintyFlagInclusive(temp_range, rain_range) ==
    IF ~RLess(temp_range, Int2Rat(TempRangeLimit))
       \/ ~RLess(rain_range, Int2Rat(RainRangeLimit))
    THEN UncertainText
    ELSE ""

\* the uncertainty_flag of create_summary
UncertaintyFlag(temp_range, rain_range) ==
    IF RLess(Int2Rat(TempRangeLimit), temp_range)
       \/ RLess(Int2Rat(RainRangeLimit), rain_range)
    THEN UncertainText
    ELSE ""

\* f"{x:.0f}" and f"{x:.1f}" for x >= 0
Fmt0(x) == ToString(Format(x, 1))
Fmt1(x) == ToString(Format(x, 10) \div 10) \o "." \o ToString(Format(x, 10) % 10)

\* the summary as its lines; .strip() drops the empty last line
create_summary(city_name, avg_temp, avg_rain, high_temp, low_temp, temp_range, rain_range) ==
    LET condition == IF RLess(Int2Rat(RainyAbove), avg_rain) THEN "rain"
                     ELSE IF RLess(Int2Rat(CloudyAbove), avg_rain) THEN "cloud"
                     ELSE "clear"
        emoji == weather_to_emoji(condition)
        uncertainty_flag == UncertaintyFlag(temp_range, rain_range)
        line1 == city_name \o ": " \o emoji \o " Avg " \o Fmt1(avg_temp) \o "C ("
                 \o Fmt0(temp_range) \o "C range), " \o Fmt0(avg_rain) \o "% rain ("
                 \o Fmt0(rain_range) \o "% range)"
        line2 == "High " \o Fmt0(high_temp) \o "C / Low " \o Fmt0(low_temp) \o "C"
    IN  IF uncertainty_flag = "" THEN <<line1, line2>>
        ELSE <<line1, line2, uncertainty_flag>>

\* lines 258-277 of main: the consensus numbers, then create_summary
Summarize(city, owm, wa) ==
    LET temps_owm == Temps(owm)
        temps_wa == Temps(wa)
        rain_owm == Rains(owm)
        rain_wa == Rains(wa)
        two == Int2Rat(2)
        avg_temp == RDiv(RAdd(Mean(temps_owm), Mean(temps_wa)), two)
        avg_rain == RDiv(RAdd(Mean(rain_owm), Mean(rain_wa)), two)
        high_temp == RMax(RMaxSeq(temps_owm), RMaxSeq(temps_wa))
        low_temp == RMin(RMinSeq(temps_owm), RMinSeq(temps_wa))
        temp_range == RAbs(RSub(Mean(temps_owm), Mean(temps_wa)))
        rain_range == RAbs(RSub(Mean(rain_owm), Mean(rain_wa)))
    IN  create_summary(city, avg_temp, avg_rain, high_temp, low_temp, temp_range, rain_range)

(***************************************************************************)
(* Notifier of weather_notify                                              *)
(***************************************************************************)
HTTP_OK == 200

\* what a POST to the push endpoint can come to: the connection fails
\* (requests raises), or a response arrives with a status and a body that
\* is JSON or is not (a gateway's HTML error page)
PushOutcomes ==
    { [reached |-> FALSE, status |-> 0, json |-> FALSE],
      [reached |-> TRUE, status |-> HTTP_OK, json |-> TRUE],
      [reached |-> TRUE, status |-> 400, json |-> TRUE],
      [reached |-> TRUE, status |-> 502, json |-> FALSE] }

Post(title, msg, attachment, status) ==
    [title |-> title, message |-> msg, attachment |-> attachment, status |-> status]

\* [raised, posts, log]: the requests the endpoint received, the lines
\* printed, and whether an exception left the function.  open(image_path)
\* raises when the file does not exist; response.json() raises when the
\* body is not JSON; the status code is never looked at.
send_pushover(msg, image_path, disk, outcome) ==
    IF image_path # NoFile /\ image_path \notin disk
    THEN [raised |-> TRUE, posts |-> <<>>, log |-> <<>>]
    ELSE IF ~outcome.reached
    THEN [raised |-> TRUE, posts |-> <<>>, log |-> <<>>]
    ELSE [raised |-> ~outcome.json,
          posts |-> <<Post("", msg, image_path, outcome.status)>>,
          log |-> <<>>]

UnavailableMessage(city) == <<city \o ": Weather data unavailable.">>

(***************************************************************************)
(* What the weather APIs can answer                                        *)
(***************************************************************************)
\* hours between two items of the OpenWeather list
OwmStep == 3

\* a value that runs linearly over the day: prof = <<value at t = 0, slope>>
Along(prof, t) == Int2Rat(prof[1] + prof[2] * t)

\* the 3-hourly items number lo..hi of a list whose grid is shifted by
\* phase hours against local midnight (the time zone of the run)
OwmItems(phase, lo, hi, tprof, rprof) ==
    [k \in 1..(hi - lo + 1) |->
        LET t == phase + OwmStep * (lo + k - 1)
        IN  Sample(t, Along(tprof, t), Along(rprof, t))]

\* the whole of tomorrow with its neighbours, or nothing of tomorrow
OwmWindows == {<<-1, 8>>, <<-1, -1>>}
OwmTempProfiles == {<<10, 0>>, <<3, 1>>}
OwmRainProfiles == {<<0, 0>>, <<6, 2>>}

\* "raise": requests.get or .json() raised; "nolist": a body without "list"
OwmResponses ==
    {[kind |-> "raise", items |-> <<>>], [kind |-> "nolist", items |-> <<>>]}
    \cup {[kind |-> "list", items |-> OwmItems(ph, w[1], w[2], tp, rp)] :
            ph \in 0..(OwmStep - 1), w \in OwmWindows,
            tp \in OwmTempProfiles, rp \in OwmRainProfiles}

WaItems(lo, hi, tprof, rprof) ==
    [k \in 1..(hi - lo + 1) |->
        LET t == lo + k - 1
        IN  Sample(t, Along(tprof, t), Along(rprof, t))]

\* all 24 hours of tomorrow, tomorrow without its 00:00 entry, the day
\* after tomorrow (forecastday[1] of a provider whose day has turned)
WaWindows == {<<0, 23>>, <<1, 23>>, <<24, 47>>}
WaTempProfiles == {<<10, 0>>, <<13, 0>>, <<3, 1>>}
WaRainProfiles == {<<0, 0>>, <<50, 0>>}

\* "raise": requests.get, .json() or a subscript raised (forecastday has
\* one day only); "noforecast": a body without "forecast"
WaResponses ==
    {[kind |-> "raise", items |-> <<>>], [kind |-> "noforecast", items |-> <<>>]}
    \cup {[kind |-> "forecast", items |-> WaItems(w[1], w[2], tp, rp)] :
            w \in WaWindows, tp \in WaTempProfiles, rp \in WaRainProfiles}

NoResp == [kind |-> "none", items |-> <<>>]

(***************************************************************************)
(* State shared by the entry points                                        *)
(***************************************************************************)
FileNames == {ComparisonFile(c) : c \in Cities}
OnDisk(fs) == {f \in DOMAIN fs : fs[f] # "absent"}

\* plt.savefig(filename): the file is created or overwritten
Savefig(fs, g) == IF g.raised THEN fs ELSE [fs EXCEPT ![g.file] = "chart"]

Line(kind, city, detail) == [kind |-> kind, city |-> city, detail |-> detail]

NoResult == [raised |-> FALSE, file |-> NoFile]
NoArgs == [city |-> "None"]
Absent == "(absent)"
NoDoc == [exists |-> FALSE, summary |-> Absent, graph_file |-> NoFile,
          gpt_comment |-> <<>>, alignment |-> Absent]

(***************************************************************************)
(* weather_notify.main                                                     *)
(***************************************************************************)
City == NOTIFY_CITIES[ci]

\* the for loop takes the next city, or main returns; the locals of the
\* iteration that ended are dead and are cleared
NextCity(n) ==
    /\ ci' = ci + 1
    /\ pc' = IF ci + 1 > n THEN "done" ELSE "start"
    /\ owm_resp' = NoResp /\ wa_resp' = NoResp
    /\ owm_data' = <<>> /\ wa_data' = <<>>
    /\ message' = <<>>
    /\ forecast' = NoDoc

\* an exception nobody catches ends the process
Crash ==
    /\ pc' = "crashed"
    /\ UNCHANGED <<ci, owm_resp, wa_resp, owm_data, wa_data, message, forecast>>

Outcome(data) == IF data = <<>> THEN "empty" ELSE "data"

\* line 251
MainFetchOwm ==
    /\ script = "weather_notify" /\ pc = "start"
    /\ \E resp \in OwmResponses :
        IF resp.kind = "raise"
        THEN /\ stages' = Append(stages, <<City, "fetch_owm", "raise">>)
             /\ log' = log
             /\ Crash
        ELSE LET data == get_openweather_forecast(resp)
             IN  /\ stages' = Append(stages, <<City, "fetch_owm", Outcome(data)>>)
                 /\ log' = IF resp.kind = "nolist"
                           THEN Append(log, Line("api_error", City, "OpenWeather"))
                           ELSE log
                 /\ owm_resp' = resp
                 /\ owm_data' = data
                 /\ pc' = "fetch_wa"
                 /\ UNCHANGED <<ci, wa_resp, wa_data, message, forecast>>
    /\ UNCHANGED <<script, args, result, files, docs, posts>>

\* line 252
MainFetchWa ==
    /\ script = "weather_notify" /\ pc = "fetch_wa"
    /\ \E resp \in WaResponses :
        IF resp.kind = "raise"
        THEN /\ stages' = Append(stages, <<City, "fetch_wa", "raise">>)
             /\ log' = log
             /\ Crash
        ELSE LET data == get_weatherapi_forecast(resp)
             IN  /\ stages' = Append(stages, <<City, "fetch_wa", Outcome(data)>>)
                 /\ log' = IF resp.kind = "noforecast"
                           THEN Append(log, Line("api_error", City, "WeatherAPI"))
                           ELSE log
                 /\ wa_resp' = resp
                 /\ wa_data' = data
                 /\ pc' = "check"
                 /\ UNCHANGED <<ci, owm_resp, owm_data, message, forecast>>
    /\ UNCHANGED <<script, args, result, files, docs, posts>>

Raised(r) == IF r.raised THEN "raise" ELSE "ok"

\* lines 254-256
MainUnavailable ==
    /\ script = "weather_notify" /\ pc = "check"
    /\ owm_data = <<>> \/ wa_data = <<>>
    /\ \E outcome \in PushOutcomes :
        LET r == send_pushover(UnavailableMessage(City), NoFile, OnDisk(files), outcome)
        IN  /\ stages' = Append(stages, <<City, "notify", Raised(r)>>)
            /\ posts' = posts \o r.posts
            /\ log' = log \o r.log
            /\ IF r.raised THEN Crash ELSE NextCity(Len(NOTIFY_CITIES))
    /\ UNCHANGED <<script, args, result, files, docs>>

\* lines 258-277
MainAggregate ==
    /\ script = "weather_notify" /\ pc = "check"
    /\ ~(owm_data = <<>> \/ wa_data = <<>>)
    /\ stages' = Append(stages, <<City, "aggregate", "ok">>)
    /\ message' = Summarize(City, owm_data, wa_data)
    /\ pc' = "graph"
    /\ UNCHANGED <<script, ci, owm_resp, wa_resp, owm_data, wa_data, forecast,
                   args, result, files, docs, posts, log>>

\* lines 280-281
MainGraphAndPush ==
    /\ script = "weather_notify" /\ pc = "graph"
    /\ \E outcome \in PushOutcomes :
        LET g == plot_comparison(City, owm_data, wa_data)
            disk == Savefig(files, g)
            r == send_pushover(message, g.file, OnDisk(disk), outcome)
        IN  /\ files' = disk
            /\ result' = g
            /\ IF g.raised
               THEN /\ stages' = Append(stages, <<City, "render", "raise">>)
                    /\ UNCHANGED <<posts, log>>
                    /\ Crash
               ELSE /\ stages' = stages \o <<<<City, "render", "ok">>,
                                             <<City, "notify", Raised(r)>>>>
                    /\ posts' = posts \o r.posts
                    /\ log' = log \o r.log
                    /\ IF r.raised THEN Crash ELSE NextCity(Len(NOTIFY_CITIES))
    /\ UNCHANGED <<script, args, docs>>

\* what every run starts from, whatever the entry point
Fresh ==
    /\ ci = 1 /\ pc = "start"
    /\ owm_resp = NoResp /\ wa_resp = NoResp
    /\ message = <<>>
    /\ forecast = NoDoc
    /\ result = NoResult
    /\ posts = <<>> /\ log = <<>> /\ stages = <<>>

Init ==
    /\ Fresh
    /\ script = "weather_notify"
    /\ args = NoArgs
    /\ owm_data = <<>> /\ wa_data = <<>>
    /\ files \in [FileNames -> {"absent", "stale"}]
    /\ docs = [c \in Cities |-> NoDoc]

Next ==
    \/ MainFetchOwm
    \/ MainFetchWa
    \/ MainUnavailable
    \/ MainAggregate
    \/ MainGraphAndPush

Spec == Init /\ [][Next]_vars

(***************************************************************************)
(* Properties of weather_notify.main                                       *)
(***************************************************************************)
Last(s) == s[Len(s)]
Calls(city) == SelectSeq(stages, LAMBDA e : e[1] = city)
CallNames(city) == [i \in 1..Len(Calls(city)) |-> Calls(city)[i][2]]
Called(city, call) == \E i \in 1..Len(stages) : stages[i][1] = city /\ stages[i][2] = call

\* the loop has left the city behind, or the process has ended
Over(i) == i < ci \/ pc \in {"done", "crashed"}

\* C1: a failure raised while one city is processed never aborts the
\* process: no entry point ever ends on an uncaught exception, it goes on
\* to the remaining city
C1_FailureNeverAborts == pc # "crashed"

UnavailablePosts(city) ==
    {i \in 1..Len(posts) : posts[i].message = UnavailableMessage(city)
                           /\ posts[i].attachment = NoFile}

\* C2: in weather_notify.main a city for which a fetcher returned an empty
\* sequence gets, by the time the loop is through with it, exactly one
\* "<city>: Weather data unavailable." notification without image, and
\* neither aggregation nor plot_comparison was called for it
C2_EmptyShortCircuits ==
    script = "weather_notify" =>
        \A i \in 1..Len(NOTIFY_CITIES) :
            LET c == NOTIFY_CITIES[i]
            IN  (/\ Over(i)
                 /\ \E k \in 1..Len(stages) :
                        /\ stages[k][1] = c
                        /\ stages[k][2] \in {"fetch_owm", "fetch_wa"}
                        /\ stages[k][3] = "empty")
                => /\ Cardinality(UnavailablePosts(c)) = 1
                   /\ ~Called(c, "aggregate")
                   /\ ~Called(c, "render")

At(data, h) == data[CHOOSE i \in 1..Len(data) : Hour(data[i]) = h]

\* C4: once both series of a city are fetched and go on to aggregation and
\* charting, they have the same length and cover the same hours, and where
\* source A returned no point at hour 0 and source B has one, source A's
\* hour-0 entry carries source B's hour-0 values
C4_MidnightReconciled ==
    (script = "weather_notify" /\ pc = "graph") =>
        /\ Len(owm_data) = Len(wa_data)
        /\ Hours(owm_data) = Hours(wa_data)
        /\ (0 \notin Hours(SelectSeq(owm_resp.items, IsTomorrow)) /\ 0 \in Hours(wa_data))
            => /\ 0 \in Hours(owm_data)
               /\ At(owm_data, 0).temp = At(wa_data, 0).temp
               /\ At(owm_data, 0).rain = At(wa_data, 0).rain

PushFailureLogged == \E j \in 1..Len(log) : log[j].kind = "push_failed"

\* C8: a non-success status of the push endpoint is logged as a failure and
\* the call that received it does not raise, so the run goes on
C8_NonSuccessLoggedNotRaised ==
    \A i \in 1..Len(posts) :
        posts[i].status # HTTP_OK =>
            /\ PushFailureLogged
            /\ ~(i = Len(posts) /\ pc = "crashed"
                 /\ Last(stages)[2] = "notify" /\ Last(stages)[3] = "raise")

\* C10: in weather_notify.main every city with data goes through fetch,
\* aggregate, render and notify, in this order, before the loop leaves it
C10_StagesInOrder ==
    script = "weather_notify" =>
        \A i \in 1..Len(NOTIFY_CITIES) :
            LET c == NOTIFY_CITIES[i]
            IN  (Over(i) /\ Called(c, "aggregate"))
                => CallNames(c) = <<"fetch_owm", "fetch_wa", "aggregate", "render", "notify">>

(***************************************************************************)
(* plot_comparison called on two five-sample series                        *)
(***************************************************************************)
\* one sample at each of 09, 12, 15, 18, 21
FiveSamples(tprof, rprof) ==
    [k \in 1..(Len(target_hours) - 1) |->
        Sample(target_hours[k], Along(tprof, target_hours[k]), Along(rprof, target_hours[k]))]

InitPlot ==
    /\ Fresh
    /\ script = "plot_comparison"
    /\ args \in {[city |-> c] : c \in Cities}
    /\ owm_data \in {FiveSamples(tp, rp) : tp \in OwmTempProfiles, rp \in OwmRainProfiles}
    /\ wa_data \in {FiveSamples(tp, rp) : tp \in WaTempProfiles, rp \in WaRainProfiles}
    /\ files \in [FileNames -> {"absent", "stale"}]
    /\ docs = [c \in Cities |-> NoDoc]

PlotCall ==
    /\ script = "plot_comparison" /\ pc = "start"
    /\ LET g == plot_comparison(args.city, owm_data, wa_data)
       IN  /\ result' = g
           /\ files' = Savefig(files, g)
           /\ stages' = Append(stages, <<args.city, "render", Raised(g)>>)
           /\ pc' = IF g.raised THEN "crashed" ELSE "done"
    /\ UNCHANGED <<script, ci, owm_resp, wa_resp, owm_data, wa_data, message,
                   forecast, args, docs, posts, log>>

NextPlot == PlotCall

SpecPlot == InitPlot /\ [][NextPlot]_vars

\* C3: plot_comparison on two five-sample series at 09, 12, 15, 18, 21
\* completes, writes exactly one file, "<lowercase city>_comparison.png",
\* over whatever was there, and returns that name
C3_ChartEmitted ==
    (script = "plot_comparison" /\ pc # "start") =>
        /\ ~result.raised
        /\ result.file = ComparisonFile(args.city)
        /\ files[ComparisonFile(args.city)] = "chart"
        /\ Cardinality({f \in FileNames : files[f] = "chart"}) = 1

(***************************************************************************)
(* create_summary called on ranges around its two limits                   *)
(***************************************************************************)
TempRanges == {Rat(k, RangeSteps) : k \in 0..(2 * TempRangeLimit * RangeSteps)}
RainRanges ==
    {Int2Rat(0)} \cup {Rat(RainRangeLimit * RangeSteps + k, RangeSteps) : k \in -2..2}

InitSummary ==
    /\ Fresh
    /\ script = "create_summary"
    /\ args \in [city : Cities,
                 avg_temp : {Rat(25, 2)},
                 avg_rain : {Int2Rat(0), Int2Rat(20), Int2Rat(50)},
                 high_temp : {Int2Rat(15)},
                 low_temp : {Int2Rat(9)},
                 temp_range : TempRanges,
                 rain_range : RainRanges]
    /\ owm_data = <<>> /\ wa_data = <<>>
    /\ files = [f \in FileNames |-> "absent"]
    /\ docs = [c \in Cities |-> NoDoc]

SummaryCall ==
    /\ script = "create_summary" /\ pc = "start"
    /\ message' = create_summary(args.city, args.avg_temp, args.avg_rain, args.high_temp,
                                 args.low_temp, args.temp_range, args.rain_range)
    /\ pc' = "done"
    /\ UNCHANGED <<script, ci, owm_resp, wa_resp, owm_data, wa_data, forecast,
                   args, result, files, docs, posts, log, stages>>

NextSummary == SummaryCall

SpecSummary == InitSummary /\ [][NextSummary]_vars

HasFlag(summary) == \E i \in 1..Len(summary) : summary[i] = UncertainText

\* C6: the summary carries the "Forecast uncertain" flag exactly when
\* temp_range > 3 or rain_range > 20
C6_FlagIffAboveLimits ==
    (script = "create_summary" /\ pc = "done") =>
        (HasFlag(message) <=>
            \/ args.temp_range.n > 3 * args.temp_range.d
            \/ args.rain_range.n > 20 * args.rain_range.d)

\* temp_range exactly 3 with rain_range exactly 20: no flag
C6_Witness ==
    /\ script = "create_summary" /\ pc = "done"
    /\ args.temp_range = Int2Rat(3)
    /\ args.rain_range = Int2Rat(20)
    /\ ~HasFlag(message)
    /\ Len(message) = 2

(***************************************************************************)
(* Narrative analyzer: the alignment tag                                   *)
(*                                                                         *)
(* A text is a sequence of atoms (pieces of text that hold no cue in part) *)
(* and "phrase in text" is: the phrase's atoms occur in the text, side by  *)
(* side.  A cue that holds another ("does not match" holds "match") is the *)
(* sequence of its parts.                                                  *)
(***************************************************************************)
WarningSign == "(warning)"

\* str.lower() on an atom
LowerAtom(a) ==
    CASE a = "Match" -> "match"
      [] a = "MATCH" -> "match"
      [] a = "Outlier" -> "outlier"
      [] a = "No Agreement" -> "no agreement"
      [] a = "All Sources Agree" -> "all sources agree"
      [] a = "Does Not " -> "does not "
      [] OTHER -> a

LowerText(text) == [i \in 1..Len(text) |-> LowerAtom(text[i])]

\* phrase in text
Contains(text, phrase) ==
    \E i \in 0..(Len(text) - Len(phrase)) :
        \A j \in 1..Len(phrase) : text[i + j] = phrase[j]

DivergentCues ==
    { <<"big mis", "match">>, <<"major difference">>, <<"does not ", "match">>,
      <<"conflict between sources">>, <<"no agreement">> }
PartialCues ==
    { <<"slightly off">>, <<"some sources">>, <<"partial alignment">>, <<"adds nuance">>,
      <<"not ", "all sources agree">>, <<"mixed picture">>, <<"one source differs">>,
      <<"outlier">> }
FullCues ==
    { <<"all sources agree">>, <<"consistent across">>, <<"align well">>, <<"in line">>,
      <<"match">>, <<"fully agree">>, <<"no notable difference">> }

AnyCue(text, cues) == \E cue \in cues : Contains(text, cue)

\* the partial cues looked for before the divergent ones
AlignmentPartialFirst(comment) ==
    LET comment_lower == LowerText(comment)
    IN  IF AnyCue(comment_lower, PartialCues) THEN "partial"
        ELSE IF Contains(comment, <<WarningSign>>) \/ AnyCue(comment_lower, DivergentCues)
        THEN "divergent"
        ELSE IF AnyCue(comment_lower, FullCues) THEN "full"
        ELSE "unknown"

\* lines 115-132
Alignment(comment) ==
    LET comment_lower == LowerText(comment)
    IN  IF Contains(comment, <<WarningSign>>) \/ AnyCue(comment_lower, DivergentCues)
        THEN "divergent"
        ELSE IF AnyCue(comment_lower, PartialCues) THEN "partial"
        ELSE IF AnyCue(comment_lower, FullCues) THEN "full"
        ELSE "unknown"

\* llm is what client.chat.completions.create came to: it raised, or it
\* returned a text (the prompt, and with it city, summary and the scraped
\* texts, decides nothing the model can see)
analyze_with_chatgpt(city, summary, llm) ==
    IF llm.raised
    THEN [raised |-> TRUE, comment |-> <<>>, alignment |-> Absent]
    ELSE [raised |-> FALSE, comment |-> llm.text, alignment |-> Alignment(llm.text)]

Atoms ==
    { WarningSign, "Does Not ", "match", "Match", "not ", "all sources agree",
      "Outlier", "No Agreement", "sunny" }
Texts(n) == UNION {[1..k -> Atoms] : k \in 0..n}
LlmOutcomes(n) ==
    {[raised |-> TRUE, text |-> <<>>]} \cup {[raised |-> FALSE, text |-> t] : t \in Texts(n)}

InitAnalyzer ==
    /\ Fresh
    /\ script = "analyze_with_chatgpt"
    /\ args \in {[city |-> c] : c \in Cities}
    /\ owm_data = <<>> /\ wa_data = <<>>
    /\ files = [f \in FileNames |-> "absent"]
    /\ docs = [c \in Cities |-> NoDoc]

AnalyzerCall ==
    /\ script = "analyze_with_chatgpt" /\ pc = "start"
    /\ \E llm \in LlmOutcomes(MaxWords) :
        LET r == analyze_with_chatgpt(args.city, "", llm)
        IN  /\ result' = r
            /\ pc' = IF r.raised THEN "crashed" ELSE "done"
    /\ UNCHANGED <<script, ci, owm_resp, wa_resp, owm_data, wa_data, message,
                   forecast, args, files, docs, posts, log, stages>>

NextAnalyzer == AnalyzerCall

SpecAnalyzer == InitAnalyzer /\ [][NextAnalyzer]_vars

\* the text holds a cue of the group, whatever the case of its letters
HasCue(text, cues) ==
    \E cue \in cues : \E i \in 0..(Len(text) - Len(cue)) :
        \A j \in 1..Len(cue) : LowerAtom(text[i + j]) = cue[j]
HasDivergent(text) == HasCue(text, DivergentCues \cup {<<WarningSign>>})

\* C5: the alignment tag is one of divergent, partial, full, unknown, the
\* first of the cue groups divergent, partial, full of which the text holds
\* a cue in any case, unknown when it holds none
C5_FirstMatchWins ==
    (script = "analyze_with_chatgpt" /\ pc = "done") =>
        /\ result.alignment \in {"divergent", "partial", "full", "unknown"}
        /\ result.alignment = "divergent" <=> HasDivergent(result.comment)
        /\ result.alignment = "partial" <=>
              (~HasDivergent(result.comment) /\ HasCue(result.comment, PartialCues))
        /\ result.alignment = "full" <=>
              (/\ ~HasDivergent(result.comment)
               /\ ~HasCue(result.comment, PartialCues)
               /\ HasCue(result.comment, FullCues))

\* a text with cues of all three groups, none in lower case: divergent
C5_Witness ==
    /\ script = "analyze_with_chatgpt" /\ pc = "done"
    /\ result.comment = <<"Match", "Outlier", "No Agreement">>
    /\ result.alignment = "divergent"

(***************************************************************************)
(* scripts/compare_and_analyze.main                                        *)
(***************************************************************************)
Doc(summary, graph_file, gpt_comment, alignment) ==
    [exists |-> TRUE, summary |-> summary, graph_file |-> graph_file,
     gpt_comment |-> gpt_comment, alignment |-> alignment]

\* what docs/<city>_forecast.json can hold when a script of scripts/ starts:
\* nothing, the document of the aggregation stage, that document enriched by
\* an earlier run, or a document without chart
StoredDocs(city) ==
    { NoDoc,
      Doc(city \o " summary", ComparisonFile(city), <<>>, Absent),
      Doc(city \o " summary", ComparisonFile(city), <<"sunny">>, "unknown"),
      Doc(city \o " summary", NoFile, <<"sunny">>, "unknown") }

\* the document with a field set on failure too
AnalyzedDocOnFailureToo(doc, r) ==
    [doc EXCEPT !.gpt_comment = r.comment,
                !.alignment = IF r.raised THEN "unknown" ELSE r.alignment]

\* lines 150-155: the document json.dump writes, none (the file stays as
\* it is) when analyze_with_chatgpt raised
AnalyzedDoc(doc, r) ==
    IF r.raised THEN doc
    ELSE [doc EXCEPT !.gpt_comment = r.comment, !.alignment = r.alignment]

AnalyzeCity == ANALYZE_CITIES[ci]

\* lines 142-148; the scrapers catch what they raise and return text
AnalyzeLoad ==
    /\ script = "compare_and_analyze" /\ pc = "start"
    /\ IF docs[AnalyzeCity].exists
       THEN /\ forecast' = docs[AnalyzeCity]
            /\ pc' = "analyze"
            /\ stages' = Append(stages, <<AnalyzeCity, "load", "ok">>)
            /\ UNCHANGED <<ci, owm_resp, wa_resp, owm_data, wa_data, message, log>>
       ELSE /\ stages' = Append(stages, <<AnalyzeCity, "load", "raise">>)
            /\ log' = Append(log, Line("error", AnalyzeCity, "FileNotFoundError"))
            /\ NextCity(Len(ANALYZE_CITIES))
    /\ UNCHANGED <<script, args, result, files, docs, posts>>

\* lines 150-159
AnalyzeEnrich ==
    /\ script = "compare_and_analyze" /\ pc = "analyze"
    /\ \E llm \in LlmOutcomes(1) :
        LET r == analyze_with_chatgpt(AnalyzeCity, forecast.summary, llm)
        IN  /\ docs' = [docs EXCEPT ![AnalyzeCity] = AnalyzedDoc(forecast, r)]
            /\ stages' = Append(stages, <<AnalyzeCity, "analyze", Raised(r)>>)
            /\ log' = Append(log, IF r.raised
                                  THEN Line("error", AnalyzeCity, "APIError")
                                  ELSE Line("updated", AnalyzeCity, r.alignment))
            /\ NextCity(Len(ANALYZE_CITIES))
    /\ UNCHANGED <<script, args, result, files, posts>>

InitAnalyze ==
    /\ Fresh
    /\ script = "compare_and_analyze"
    /\ args = NoArgs
    /\ owm_data = <<>> /\ wa_data = <<>>
    /\ files = [f \in FileNames |-> "absent"]
    /\ docs \in {[c \in Cities |-> IF c = "Brussels" THEN b ELSE p] :
                    b \in StoredDocs("Brussels"), p \in StoredDocs("Paris")}

NextAnalyze == AnalyzeLoad \/ AnalyzeEnrich

SpecAnalyze == InitAnalyze /\ [][NextAnalyze]_vars

LlmFailedFor(city) ==
    \E j \in 1..Len(log) :
        log[j].kind = "error" /\ log[j].city = city /\ log[j].detail = "APIError"

\* C7: the step of compare_and_analyze.main in which the completion
\* request of a city fails leaves every docs/<city>_forecast.json as it
\* was, does not end the process, and hands the loop to the next city
C7_FailedCompletionLeavesDoc ==
    [][(script = "compare_and_analyze" /\ pc = "analyze"
          /\ Last(stages')[2] = "analyze" /\ Last(stages')[3] = "raise")
       => (/\ docs' = docs
           /\ ci' = ci + 1
           /\ pc' = IF ci < Len(ANALYZE_CITIES) THEN "start" ELSE "done")]_vars

\* the request failed for the first city, its document is as it was stored
\* (not enriched) and the loop is at the second city
C7_Witness ==
    /\ script = "compare_and_analyze"
    /\ LlmFailedFor(ANALYZE_CITIES[1])
    /\ docs[ANALYZE_CITIES[1]] = Doc("Brussels summary", ComparisonFile("Brussels"), <<>>, Absent)
    /\ ci = 2 /\ pc = "start"

(***************************************************************************)
(* scripts/send_to_pushover.main                                           *)
(***************************************************************************)
\* ALIGNMENT_EMOJIS.get(alignment, <information sign>)
AlignmentEmoji(alignment) ==
    CASE alignment = "full" -> "(check mark)"
      [] alignment = "partial" -> "(warning)"
      [] alignment = "divergent" -> "(cross mark)"
      [] OTHER -> "(information)"

\* the title without its date
Title(alignment, city) == AlignmentEmoji(alignment) \o " " \o city \o " Forecast"

NoComment == <<"(No GPT comment available)">>

\* [raised, exc, posts, log] of send_pushover_message(city, forecast) with
\* the chart files of disk and the push endpoint answering outcome
send_pushover_message(city, doc, disk, outcome) ==
    LET summary == doc.summary
        gpt_comment == IF doc.gpt_comment = <<>> THEN NoComment ELSE doc.gpt_comment
        alignment == IF doc.alignment = Absent THEN "unknown" ELSE doc.alignment
        graph_file == doc.graph_file
        msg == [summary |-> summary, gpt |-> gpt_comment, tail |-> "Chart attached."]
        sending == Line("sending", city, "")
    IN  IF graph_file = NoFile
        THEN \* os.path.basename(None)
             [raised |-> TRUE, exc |-> "TypeError", posts |-> <<>>, log |-> <<>>]
        ELSE IF graph_file \notin disk
        THEN [raised |-> TRUE, exc |-> "FileNotFoundError", posts |-> <<>>, log |-> <<>>]
        ELSE IF ~outcome.reached
        THEN [raised |-> TRUE, exc |-> "ConnectionError", posts |-> <<>>,
              log |-> <<sending>>]
        ELSE [raised |-> FALSE, exc |-> "",
              posts |-> <<Post(Title(alignment, city), msg, graph_file, outcome.status)>>,
              log |-> <<sending,
                        IF outcome.status = HTTP_OK
                        THEN Line("sent", city, "")
                        ELSE Line("push_failed", city, "")>>]

PushCity == PUSH_CITIES[ci]

\* lines 62-63
PushLoad ==
    /\ script = "send_to_pushover" /\ pc = "start"
    /\ IF docs[PushCity].exists
       THEN /\ forecast' = docs[PushCity]
            /\ pc' = "send"
            /\ stages' = Append(stages, <<PushCity, "load", "ok">>)
            /\ UNCHANGED <<ci, owm_resp, wa_resp, owm_data, wa_data, message, log>>
       ELSE /\ stages' = Append(stages, <<PushCity, "load", "raise">>)
            /\ log' = Append(log, Line("error", PushCity, "FileNotFoundError"))
            /\ NextCity(Len(PUSH_CITIES))
    /\ UNCHANGED <<script, args, result, files, docs, posts>>

\* lines 64-66
PushSend ==
    /\ script = "send_to_pushover" /\ pc = "send"
    /\ \E outcome \in PushOutcomes :
        LET r == send_pushover_message(PushCity, forecast, OnDisk(files), outcome)
        IN  /\ posts' = posts \o r.posts
            /\ stages' = Append(stages, <<PushCity, "notify", Raised(r)>>)
            /\ log' = log \o r.log
                      \o (IF r.raised THEN <<Line("error", PushCity, r.exc)>> ELSE <<>>)
            /\ NextCity(Len(PUSH_CITIES))
    /\ UNCHANGED <<script, args, result, files, docs>>

InitPush ==
    /\ Fresh
    /\ script = "send_to_pushover"
    /\ args = NoArgs
    /\ owm_data = <<>> /\ wa_data = <<>>
    /\ files \in [FileNames -> {"absent", "chart"}]
    /\ docs \in {[c \in Cities |-> IF c = "Brussels" THEN b ELSE p] :
                    b \in StoredDocs("Brussels"), p \in StoredDocs("Paris")}

NextPush == PushLoad \/ PushSend

SpecPush == InitPush /\ [][NextPush]_vars

PostedFor(city) ==
    \E k \in 1..Len(posts) :
        \E a \in {"full", "partial", "divergent", "unknown"} :
            posts[k].title = Title(a, city)

ConnectionFailedFor(city) ==
    \E j \in 1..Len(log) :
        log[j].kind = "error" /\ log[j].city = city /\ log[j].detail = "ConnectionError"

\* C9: the image is optional: send_to_pushover has posted the text of
\* every city whose document has no graph_file, once the loop is through
\* with the city, unless the connection to the endpoint failed
C9_TextPostedWithoutImage ==
    script = "send_to_pushover" =>
        \A i \in 1..Len(PUSH_CITIES) :
            LET c == PUSH_CITIES[i]
            IN  (/\ Over(i)
                 /\ docs[c].exists
                 /\ docs[c].graph_file = NoFile
                 /\ ~ConnectionFailedFor(c))
                => PostedFor(c)

(***************************************************************************)
(* get_openweather_forecast on its own                                     *)
(***************************************************************************)
\* a day that warms up to the early afternoon and cools down again
DayCurve(t) == Int2Rat(20 - Abs(t - 13))

OwmCurveItems(phase, lo, hi, rprof) ==
    [k \in 1..(hi - lo + 1) |->
        LET t == phase + OwmStep * (lo + k - 1)
        IN  Sample(t, DayCurve(t), Along(rprof, t))]

\* the windows of the main script, and lists that cover a part of tomorrow
\* only: its morning, its evening, its middle
FetchWindows == OwmWindows \cup {<<-1, 3>>, <<5, 8>>, <<3, 5>>}
FetchTempProfiles == OwmTempProfiles \cup {<<40, -1>>}

FetchResponses ==
    {[kind |-> "raise", items |-> <<>>], [kind |-> "nolist", items |-> <<>>]}
    \cup {[kind |-> "list", items |-> OwmItems(ph, w[1], w[2], tp, rp)] :
            ph \in 0..(OwmStep - 1), w \in FetchWindows,
            tp \in FetchTempProfiles, rp \in OwmRainProfiles}
    \cup {[kind |-> "list", items |-> OwmCurveItems(ph, w[1], w[2], rp)] :
            ph \in 0..(OwmStep - 1), w \in FetchWindows, rp \in OwmRainProfiles}

InitFetch ==
    /\ Fresh
    /\ script = "get_openweather_forecast"
    /\ args \in [city : Cities]
    /\ owm_data = <<>> /\ wa_data = <<>>
    /\ files = [f \in FileNames |-> "absent"]
    /\ docs = [c \in Cities |-> NoDoc]

FetchCall ==
    /\ script = "get_openweather_forecast" /\ pc = "start"
    /\ \E resp \in FetchResponses :
        /\ owm_resp' = resp
        /\ IF resp.kind = "raise"
           THEN /\ pc' = "crashed"
                /\ UNCHANGED <<owm_data, log>>
           ELSE /\ owm_data' = get_openweather_forecast(resp)
                /\ log' = IF resp.kind = "nolist"
                          THEN Append(log, Line("api_error", args.city, "OpenWeather"))
                          ELSE log
                /\ pc' = "done"
    /\ UNCHANGED <<script, ci, wa_resp, wa_data, message, forecast, args,
                   result, files, docs, posts, stages>>

NextFetch == FetchCall

SpecFetch == InitFetch /\ [][NextFetch]_vars

\* the points of the answer that lie in tomorrow
TomorrowPoints(resp) == {resp.items[i] : i \in {j \in 1..Len(resp.items) : IsTomorrow(resp.items[j])}}
Earlier(pts, h) == {p \in pts : p.t < h}
Later(pts, h) == {p \in pts : p.t > h}
NearestEarlier(pts, h) == CHOOSE p \in Earlier(pts, h) : \A q \in Earlier(pts, h) : q.t <= p.t
NearestLater(pts, h) == CHOOSE p \in Later(pts, h) : \A q \in Later(pts, h) : p.t <= q.t
FirstPoint(pts) == CHOOSE p \in pts : \A q \in pts : p.t <= q.t
LastPoint(pts) == CHOOSE p \in pts : \A q \in pts : q.t <= p.t

\* v = b + (a - b) * (h - tb) / (ta - tb), said without a division
OnTheLine(v, b, a, tb, ta, h) ==
    RMul(RSub(v, b), Int2Rat(ta - tb)) = RMul(RSub(a, b), Int2Rat(h - tb))
Between(v, b, a) == ~RLess(v, RMin(b, a)) /\ ~RLess(RMax(b, a), v)
SameValue(s, p) == s.temp = p.temp /\ s.rain = p.rain

Fetched == script = "get_openweather_forecast" /\ pc = "done"

\* what the sample for target hour h has to be, given tomorrow's points
SampleAsClaimed(s, pts, h) ==
    IF \E p \in pts : Hour(p) = h
    THEN \E p \in pts : Hour(p) = h /\ SameValue(s, p)
    ELSE IF Earlier(pts, h) = {} THEN SameValue(s, FirstPoint(pts))
    ELSE IF Later(pts, h) = {} THEN SameValue(s, LastPoint(pts))
    ELSE LET b == NearestEarlier(pts, h)
             a == NearestLater(pts, h)
         IN  /\ OnTheLine(s.temp, b.temp, a.temp, b.t, a.t, h)
             /\ OnTheLine(s.rain, b.rain, a.rain, b.t, a.t, h)
             /\ Between(s.temp, b.temp, a.temp)
             /\ Between(s.rain, b.rain, a.rain)

\* C11: when the OpenWeather answer holds at least one point of tomorrow,
\* get_openweather_forecast returns exactly one sample per target hour, in
\* the order 9, 12, 15, 18, 21, 0; a target hour that a point has takes that
\* point's value; any other takes the value on the straight line between
\* the nearest earlier and the nearest later point, which lies between their
\* values, or the first / last point's value when it is outside their range
C11_OneSamplePerTargetHour ==
    (Fetched /\ TomorrowPoints(owm_resp) # {}) =>
        /\ Len(owm_data) = Len(target_hours)
        /\ \A k \in 1..Len(target_hours) :
            /\ owm_data[k].t = target_hours[k]
            /\ SampleAsClaimed(owm_data[k], TomorrowPoints(owm_resp), target_hours[k])

\* one answer in which a target hour lies before the first point, one after
\* the last, and one strictly between two points of different temperatures,
\* where it takes a value strictly between the two
C11_Witness ==
    /\ Fetched
    /\ LET pts == TomorrowPoints(owm_resp)
       IN  /\ pts # {}
           /\ Len(owm_data) = Len(target_hours)
           /\ \E k \in 1..Len(target_hours) :
                /\ Earlier(pts, target_hours[k]) = {}
                /\ SameValue(owm_data[k], FirstPoint(pts))
           /\ \E k \in 1..Len(target_hours) :
                /\ Later(pts, target_hours[k]) = {}
                /\ SameValue(owm_data[k], LastPoint(pts))
           /\ \E k \in 1..Len(target_hours) :
                LET h == target_hours[k]
                IN  /\ \A p \in pts : Hour(p) # h
                    /\ Earlier(pts, h) # {} /\ Later(pts, h) # {}
                    /\ NearestEarlier(pts, h).temp # NearestLater(pts, h).temp
                    /\ owm_data[k].temp # NearestEarlier(pts, h).temp
                    /\ owm_data[k].temp # NearestLater(pts, h).temp

====
